---- MODULE Spec2Model ----
(***************************************************************************)
(* A model of the XPBD constraint core of bevy_xpbd: the distance joint    *)
(* (src/constraints/joints/distance.rs) and the penetration constraint     *)
(* (src/constraints/penetration.rs).                                       *)
(*                                                                         *)
(* Scalars are fixed-point integers: the real number x is the integer      *)
(* x * Scale, rounded to the nearest unit.  Scalar::EPSILON, the distance  *)
(* from 1.0 to the next representable number, is one unit.  Vectors are    *)
(* triples of scalars, rotations are unit quaternions <<x, y, z, w>> of    *)
(* scalars.                                                                *)
(***************************************************************************)
EXTENDS Integers, Sequences, FiniteSets

VARIABLES
    joint,      \* the DistanceJoint component
    jbodies,    \* <<body1, body2>>: the two rigid bodies of the joint
    jcalls,     \* number of solve calls made on the joint
    pc,         \* the PenetrationConstraint
    pbodies,    \* <<body1, body2>>: the two rigid bodies in contact
    pcalls      \* number of solve calls made on the penetration constraint

vars == <<joint, jbodies, jcalls, pc, pbodies, pcalls>>

\* Resolution of the fixed-point Scalar: Scale units make 1.0.
Scale == 256

\* Scalar::EPSILON
Epsilon == 1

\* Largest number of solve calls followed on one constraint.
MaxSolves == 4

(***************************************************************************)
(* Scalar and vector arithmetic                                            *)
(***************************************************************************)
Abs(x) == IF x < 0 THEN -x ELSE x

\* a / b rounded to the nearest integer, halves away from zero (b > 0).
RDiv(a, b) == IF a >= 0 THEN (2 * a + b) \div (2 * b)
                        ELSE -((2 * (-a) + b) \div (2 * b))

\* The product of two scalars.
Mul(a, b) == RDiv(a * b, Scale)

\* The quotient of two scalars (b > 0).
Quo(a, b) == RDiv(a * Scale, b)

RECURSIVE SqrtSearch(_, _, _)
SqrtSearch(n, lo, hi) ==
    IF lo >= hi THEN lo
    ELSE LET mid == (lo + hi + 1) \div 2
         IN  IF mid * mid <= n THEN SqrtSearch(n, mid, hi)
                               ELSE SqrtSearch(n, lo, mid - 1)

\* floor(sqrt(n)) for 0 <= n < 2^31
ISqrt(n) == SqrtSearch(n, 0, 46340)

ZERO == <<0, 0, 0>>

VAdd(a, b) == <<a[1] + b[1], a[2] + b[2], a[3] + b[3]>>
VSub(a, b) == <<a[1] - b[1], a[2] - b[2], a[3] - b[3]>>
VNeg(a) == <<-a[1], -a[2], -a[3]>>
\* scalar * vector
VScale(s, a) == <<Mul(s, a[1]), Mul(s, a[2]), Mul(s, a[3])>>
\* vector / scalar
VDiv(a, s) == <<Quo(a[1], s), Quo(a[2], s), Quo(a[3], s)>>
Dot(a, b) == RDiv(a[1] * b[1] + a[2] * b[2] + a[3] * b[3], Scale)
Cross(a, b) == <<RDiv(a[2] * b[3] - a[3] * b[2], Scale),
                 RDiv(a[3] * b[1] - a[1] * b[3], Scale),
                 RDiv(a[1] * b[2] - a[2] * b[1], Scale)>>
Length(a) == ISqrt(a[1] * a[1] + a[2] * a[2] + a[3] * a[3])

(***************************************************************************)
(* Rotations: unit quaternions <<x, y, z, w>>                              *)
(***************************************************************************)
IDENTITY == <<0, 0, 0, Scale>>

QVec(q) == <<q[1], q[2], q[3]>>

\* v + w t + u x t
RotateT(u, w, v, t) == VAdd(v, VAdd(VScale(w, t), Cross(u, t)))

\* rotation.rotate(v) = v + 2 w (u x v) + 2 u x (u x v), u the vector part
Rotate(q, v) == RotateT(QVec(q), q[4], v, VScale(2 * Scale, Cross(QVec(q), v)))

QDivide(q, len) ==
    IF len = 0 THEN IDENTITY
    ELSE <<Quo(q[1], len), Quo(q[2], len), Quo(q[3], len), Quo(q[4], len)>>

QNormalize(q) ==
    QDivide(q, ISqrt(q[1] * q[1] + q[2] * q[2] + q[3] * q[3] + q[4] * q[4]))

QAdd(q, dv, dw) == <<q[1] + dv[1], q[2] + dv[2], q[3] + dv[3], q[4] + dw>>

\* normalize(q + (h, 0) * q), where (h, 0) * q = (w h + h x u, -h . u)
AddHalfRot(q, h) ==
    IF h = ZERO THEN q
    ELSE QNormalize(QAdd(q, VAdd(VScale(q[4], h), Cross(h, QVec(q))),
                         -Dot(h, QVec(q))))

\* The rotation q composed with the small-angle quaternion of the angular
\* displacement omega: normalize(q + 1/2 (omega, 0) * q).
AddDeltaRot(q, omega) ==
    AddHalfRot(q, <<RDiv(omega[1], 2), RDiv(omega[2], 2), RDiv(omega[3], 2)>>)

(***************************************************************************)
(* The rigid-body view                                                     *)
(***************************************************************************)
\* A body at rest since the start of the step.
RigidBody(entity, position, mass, friction) ==
    [entity |-> entity,
     position |-> position,
     rotation |-> IDENTITY,
     previous_position |-> position,
     previous_rotation |-> IDENTITY,
     inv_mass |-> mass.inv_mass,
     inv_inertia |-> mass.inv_inertia,
     center_of_mass |-> ZERO,
     friction |-> [static_coefficient |-> friction]]

current_position(body) == body.position

\* Friction::combine: the larger of the two static coefficients.
combine(friction1, friction2) ==
    [static_coefficient |->
        IF friction1.static_coefficient >= friction2.static_coefficient
        THEN friction1.static_coefficient
        ELSE friction2.static_coefficient]

\* ContactData::global_normal1: the contact normal, kept in the first body's
\* frame, in world space.
global_normal1(contact, rotation) == Rotate(rotation, contact.normal1)

(***************************************************************************)
(* The correction kernel shared by the constraints (PositionConstraint)   *)
(***************************************************************************)
inverse_mass_along(body, rxd) ==
    body.inv_mass + Dot(VScale(body.inv_inertia, rxd), rxd)

\* w = invMass + (invInertia (r x d)) . (r x d)
compute_generalized_inverse_mass(body, r, d) ==
    inverse_mass_along(body, Cross(r, d))

lagrange_update(lagrange, c, w_sum, tilde_compliance) ==
    IF w_sum + tilde_compliance <= Epsilon THEN 0
    ELSE Quo(-c - Mul(tilde_compliance, lagrange), w_sum + tilde_compliance)

\* delta lambda = (-C - a lambda) / (w1 + w2 + a), a = compliance / dt^2;
\* no correction when the denominator is numerically zero.
compute_lagrange_update(lagrange, c, gradients, w, compliance, dt) ==
    lagrange_update(lagrange, c, w[1] + w[2], Quo(compliance, Mul(dt, dt)))

\* One body after the positional impulse p applied at the offset r.
apply_impulse(body, p, r) ==
    [body EXCEPT
        !.position = VAdd(body.position, VScale(body.inv_mass, p)),
        !.rotation = AddDeltaRot(body.rotation,
                                 VScale(body.inv_inertia, Cross(r, p)))]

\* Both bodies after the correction delta_lagrange along direction.
apply_positional_correction(body1, body2, delta_lagrange, direction, r1, r2) ==
    <<apply_impulse(body1, VScale(delta_lagrange, direction), r1),
      apply_impulse(body2, VNeg(VScale(delta_lagrange, direction)), r2)>>

\* F = lambda n / dt^2
compute_force(lagrange, direction, dt) ==
    VDiv(VScale(lagrange, direction), Mul(dt, dt))

correction_outside(limits, offset, distance) ==
    IF distance <= Epsilon THEN ZERO
    ELSE IF distance < limits.min
         THEN VScale(distance - limits.min, VDiv(offset, distance))
    ELSE IF distance > limits.max
         THEN VScale(distance - limits.max, VDiv(offset, distance))
    ELSE ZERO

\* DistanceLimit::compute_correction: the part of the separation p1 - p2
\* that lies outside [min, max]; zero inside the range.
compute_correction(limits, p1, p2) ==
    correction_outside(limits, VSub(p1, p2), Length(VSub(p1, p2)))

(***************************************************************************)
(* DistanceJoint                                                           *)
(***************************************************************************)
\* Option<DistanceLimit>: <<>> is None, <<limit>> is Some(limit).
None == <<>>
Some(x) == <<x>>

DistanceLimit_new(min, max) == [min |-> min, max |-> max]

DistanceJoint_new(entity1, entity2) ==
    [entity1 |-> entity1,
     entity2 |-> entity2,
     local_anchor1 |-> ZERO,
     local_anchor2 |-> ZERO,
     rest_length |-> 0,
     length_limits |-> None,
     damping_linear |-> 0,
     damping_angular |-> 0,
     lagrange |-> 0,
     compliance |-> 0,
     force |-> ZERO]

with_compliance(self, compliance) == [self EXCEPT !.compliance = compliance]
with_local_anchor_1(self, anchor) == [self EXCEPT !.local_anchor1 = anchor]
with_local_anchor_2(self, anchor) == [self EXCEPT !.local_anchor2 = anchor]
with_limits(self, min, max) ==
    [self EXCEPT !.length_limits = Some(DistanceLimit_new(min, max))]
with_rest_length(self, rest_length) == [self EXCEPT !.rest_length = rest_length]

\* The world-space anchor points of the joint on its two bodies.
joint_anchor1(self, bodies) ==
    VAdd(current_position(bodies[1]),
         Rotate(bodies[1].rotation, self.local_anchor1))
joint_anchor2(self, bodies) ==
    VAdd(current_position(bodies[2]),
         Rotate(bodies[2].rotation, self.local_anchor2))

\* constrain_length is followed in stages, each taking the values the
\* earlier lines of the function have bound.  Every stage yields the joint
\* and the bodies after the call and the force the call returns.

\* return Vector::ZERO
constrain_length_zero(self, bodies) ==
    [self |-> self, bodies |-> bodies, force |-> ZERO]

\* constrain_length_apply splitting the correction evenly between the two
\* bodies, whatever their inverse masses.
constrain_length_apply_evenly(self, bodies, dt, world_r1, world_r2, n, delta_lagrange) ==
    [self |-> [self EXCEPT !.lagrange = self.lagrange + delta_lagrange],
     bodies |-> <<[bodies[1] EXCEPT !.position =
                      VAdd(bodies[1].position,
                           VScale(Scale \div 2, VScale(delta_lagrange, n)))],
                  [bodies[2] EXCEPT !.position =
                      VSub(bodies[2].position,
                           VScale(Scale \div 2, VScale(delta_lagrange, n)))]>>,
     force |-> compute_force(self.lagrange + delta_lagrange, n, dt)]

\* lines 167-173: accumulate the multiplier, correct the bodies, return the
\* force
constrain_length_apply(self, bodies, dt, world_r1, world_r2, n, delta_lagrange) ==
    [self |-> [self EXCEPT !.lagrange = self.lagrange + delta_lagrange],
     bodies |-> apply_positional_correction(bodies[1], bodies[2],
                    delta_lagrange, n, world_r1, world_r2),
     force |-> compute_force(self.lagrange + delta_lagrange, n, dt)]

\* constrain_length_update passing no compliance to the multiplier update.
constrain_length_update_rigid(self, bodies, dt, world_r1, world_r2, c, n) ==
    constrain_length_apply(self, bodies, dt, world_r1, world_r2, n,
        compute_lagrange_update(self.lagrange, c, <<n, VNeg(n)>>,
            <<compute_generalized_inverse_mass(bodies[1], world_r1, n),
              compute_generalized_inverse_mass(bodies[2], world_r2, n)>>,
            0, dt))

\* lines 155-166: the generalized inverse masses and the multiplier update
constrain_length_update(self, bodies, dt, world_r1, world_r2, c, n) ==
    constrain_length_apply(self, bodies, dt, world_r1, world_r2, n,
        compute_lagrange_update(self.lagrange, c, <<n, VNeg(n)>>,
            <<compute_generalized_inverse_mass(bodies[1], world_r1, n),
              compute_generalized_inverse_mass(bodies[2], world_r2, n)>>,
            self.compliance, dt))

\* constrain_length_along taking delta_x itself, not normalized, as the
\* direction.
constrain_length_along_unnormalized(self, bodies, dt, world_r1, world_r2, delta_x, length) ==
    IF length < Epsilon \/ Abs(length - self.rest_length) < Epsilon
    THEN constrain_length_zero(self, bodies)
    ELSE constrain_length_update(self, bodies, dt, world_r1, world_r2,
                                 length - self.rest_length, delta_x)

\* constrain_length_along without the guard on a satisfied constraint.
constrain_length_along_unguarded(self, bodies, dt, world_r1, world_r2, delta_x, length) ==
    IF length < Epsilon
    THEN constrain_length_zero(self, bodies)
    ELSE constrain_length_update(self, bodies, dt, world_r1, world_r2,
                                 length - self.rest_length, VDiv(delta_x, length))

\* lines 145-153: the constraint value, the guards, the unit direction
constrain_length_along(self, bodies, dt, world_r1, world_r2, delta_x, length) ==
    IF length < Epsilon \/ Abs(length - self.rest_length) < Epsilon
    THEN constrain_length_zero(self, bodies)
    ELSE constrain_length_update(self, bodies, dt, world_r1, world_r2,
                                 length - self.rest_length, VDiv(delta_x, length))

\* line 139: length = delta_x.length()
constrain_length_of(self, bodies, dt, world_r1, world_r2, delta_x) ==
    constrain_length_along(self, bodies, dt, world_r1, world_r2, delta_x,
                           Length(delta_x))

\* lines 125-140: the separation of the anchors p1 and p2, and the limits
constrain_length_between(self, bodies, dt, world_r1, world_r2, p1, p2) ==
    IF self.length_limits # None
    THEN IF Length(VSub(p1, p2)) < Epsilon
         THEN constrain_length_zero(self, bodies)
         ELSE constrain_length_of(self, bodies, dt, world_r1, world_r2,
                  VAdd(VSub(p1, p2),
                       compute_correction(self.length_limits[1], p1, p2)))
    ELSE constrain_length_of(self, bodies, dt, world_r1, world_r2, VSub(p1, p2))

\* lines 126, 136-137: the anchors in world space
constrain_length_anchors(self, bodies, dt, world_r1, world_r2) ==
    constrain_length_between(self, bodies, dt, world_r1, world_r2,
        VAdd(current_position(bodies[1]), world_r1),
        VAdd(current_position(bodies[2]), world_r2))

\* lines 119-122
constrain_length(self, bodies, dt) ==
    constrain_length_anchors(self, bodies, dt,
        Rotate(bodies[1].rotation, self.local_anchor1),
        Rotate(bodies[2].rotation, self.local_anchor2))

joint_clear_lagrange_multipliers(self) == [self EXCEPT !.lagrange = 0]

\* self.force = <the force constrain_length returned>
joint_set_force(r) ==
    [self |-> [r.self EXCEPT !.force = r.force], bodies |-> r.bodies]

\* solve: self.force = self.constrain_length(bodies, dt)
joint_solve(self, bodies, dt) ==
    joint_set_force(constrain_length(self, bodies, dt))

(***************************************************************************)
(* PenetrationConstraint                                                   *)
(***************************************************************************)
PenetrationConstraint_new(body1, body2, contact) ==
    [entity1 |-> body1.entity,
     entity2 |-> body2.entity,
     contact |-> contact,
     r1 |-> VSub(contact.point1, body1.center_of_mass),
     r2 |-> VSub(contact.point2, body2.center_of_mass),
     normal_lagrange |-> 0,
     tangent_lagrange |-> 0,
     compliance |-> 0,
     normal_force |-> ZERO,
     static_friction_force |-> ZERO]

\* penetration_clear_lagrange_multipliers forgetting the tangential multiplier.
penetration_clear_normal_only(self) == [self EXCEPT !.normal_lagrange = 0]

penetration_clear_lagrange_multipliers(self) ==
    [self EXCEPT !.normal_lagrange = 0, !.tangent_lagrange = 0]

\* lines 47-49: the penetration depth at the bodies' current positions
penetration_depth(self, bodies) ==
    Dot(VSub(VAdd(current_position(bodies[1]),
                  Rotate(bodies[1].rotation, self.contact.point1)),
             VAdd(current_position(bodies[2]),
                  Rotate(bodies[2].rotation, self.contact.point2))),
        global_normal1(self.contact, bodies[1].rotation))

\* lines 111-117
solve_contact_apply(self, bodies, dt, normal, r1, r2, delta_lagrange) ==
    [self |-> [self EXCEPT
                  !.normal_lagrange = self.normal_lagrange + delta_lagrange,
                  !.normal_force =
                      VDiv(VScale(self.normal_lagrange + delta_lagrange, normal),
                           Mul(dt, dt))],
     bodies |-> apply_positional_correction(bodies[1], bodies[2],
                    delta_lagrange, normal, r1, r2)]

\* solve_contact_along taking the generalized inverse mass of the first body
\* for both bodies.
solve_contact_along_first_mass(self, bodies, dt, normal, r1, r2) ==
    solve_contact_apply(self, bodies, dt, normal, r1, r2,
        compute_lagrange_update(self.normal_lagrange, self.contact.penetration,
            <<normal, VNeg(normal)>>,
            <<compute_generalized_inverse_mass(bodies[1], r1, normal),
              compute_generalized_inverse_mass(bodies[1], r1, normal)>>,
            self.compliance, dt))

\* lines 100-110
solve_contact_along(self, bodies, dt, normal, r1, r2) ==
    solve_contact_apply(self, bodies, dt, normal, r1, r2,
        compute_lagrange_update(self.normal_lagrange, self.contact.penetration,
            <<normal, VNeg(normal)>>,
            <<compute_generalized_inverse_mass(bodies[1], r1, normal),
              compute_generalized_inverse_mass(bodies[2], r2, normal)>>,
            self.compliance, dt))

\* lines 92-98
solve_contact(self, bodies, dt) ==
    solve_contact_along(self, bodies, dt,
        global_normal1(self.contact, bodies[1].rotation),
        Rotate(bodies[1].rotation, self.r1),
        Rotate(bodies[2].rotation, self.r2))

\* lines 135-140: how far a contact point has moved since the start of the step
contact_point_motion(body, point) ==
    VAdd(VSub(current_position(body), body.previous_position),
         VSub(Rotate(body.rotation, point), Rotate(body.previous_rotation, point)))

\* line 141: the relative motion of the two contact points
contact_delta_p(self, bodies) ==
    VSub(contact_point_motion(bodies[1], self.contact.point1),
         contact_point_motion(bodies[2], self.contact.point2))

\* line 142: delta_p - delta_p.dot(normal) * normal
tangent_part(delta_p, normal) ==
    VSub(delta_p, VScale(Dot(delta_p, normal), normal))

\* The tangential relative motion and its magnitude.
contact_delta_p_tangent(self, bodies) ==
    tangent_part(contact_delta_p(self, bodies),
                 global_normal1(self.contact, bodies[1].rotation))
contact_sliding_len(self, bodies) == Length(contact_delta_p_tangent(self, bodies))

\* line 160
contact_static_coefficient(bodies) ==
    combine(bodies[1].friction, bodies[2].friction).static_coefficient

\* lines 167-173
solve_friction_apply(self, bodies, dt, tangent, r1, r2, delta_lagrange) ==
    [self |-> [self EXCEPT
                  !.tangent_lagrange = self.tangent_lagrange + delta_lagrange,
                  !.static_friction_force =
                      VDiv(VScale(self.tangent_lagrange + delta_lagrange, tangent),
                           Mul(dt, dt))],
     bodies |-> apply_positional_correction(bodies[1], bodies[2],
                    delta_lagrange, tangent, r1, r2)]

\* solve_friction_along with the comparison of line 163 turned around.
solve_friction_along_inverted(self, bodies, dt, r1, r2, sliding_len, tangent) ==
    IF sliding_len > Mul(contact_static_coefficient(bodies),
                         self.contact.penetration)
    THEN solve_friction_apply(self, bodies, dt, tangent, r1, r2,
             compute_lagrange_update(self.tangent_lagrange, sliding_len,
                 <<tangent, VNeg(tangent)>>,
                 <<compute_generalized_inverse_mass(bodies[1], r1, tangent),
                   compute_generalized_inverse_mass(bodies[2], r2, tangent)>>,
                 self.compliance, dt))
    ELSE [self |-> self, bodies |-> bodies]

\* solve_friction_along applying static friction whatever the sliding.
solve_friction_along_always(self, bodies, dt, r1, r2, sliding_len, tangent) ==
    solve_friction_apply(self, bodies, dt, tangent, r1, r2,
        compute_lagrange_update(self.tangent_lagrange, sliding_len,
            <<tangent, VNeg(tangent)>>,
            <<compute_generalized_inverse_mass(bodies[1], r1, tangent),
              compute_generalized_inverse_mass(bodies[2], r2, tangent)>>,
            self.compliance, dt))

\* lines 151-174
solve_friction_along(self, bodies, dt, r1, r2, sliding_len, tangent) ==
    IF sliding_len < Mul(contact_static_coefficient(bodies),
                         self.contact.penetration)
    THEN solve_friction_apply(self, bodies, dt, tangent, r1, r2,
             compute_lagrange_update(self.tangent_lagrange, sliding_len,
                 <<tangent, VNeg(tangent)>>,
                 <<compute_generalized_inverse_mass(bodies[1], r1, tangent),
                   compute_generalized_inverse_mass(bodies[2], r2, tangent)>>,
                 self.compliance, dt))
    ELSE [self |-> self, bodies |-> bodies]

\* lines 145-149
solve_friction_sliding(self, bodies, dt, r1, r2, delta_p_tangent, sliding_len) ==
    IF sliding_len <= Epsilon
    THEN [self |-> self, bodies |-> bodies]
    ELSE solve_friction_along(self, bodies, dt, r1, r2, sliding_len,
                              VDiv(delta_p_tangent, sliding_len))

\* line 145
solve_friction_tangent(self, bodies, dt, r1, r2, delta_p_tangent) ==
    solve_friction_sliding(self, bodies, dt, r1, r2, delta_p_tangent,
                           Length(delta_p_tangent))

\* lines 126-142
solve_friction(self, bodies, dt) ==
    solve_friction_tangent(self, bodies, dt,
        Rotate(bodies[1].rotation, self.r1),
        Rotate(bodies[2].rotation, self.r2),
        contact_delta_p_tangent(self, bodies))

\* lines 56-57: the friction phase follows the contact phase
solve_friction_after(contact, dt) == solve_friction(contact.self, contact.bodies, dt)

\* solve_overlap without the early return.
solve_overlap_unguarded(self, bodies, dt) ==
    solve_friction_after(solve_contact(self, bodies, dt), dt)

\* lines 51-57
solve_overlap(self, bodies, dt) ==
    IF self.contact.penetration <= Epsilon
    THEN [self |-> self, bodies |-> bodies]
    ELSE solve_friction_after(solve_contact(self, bodies, dt), dt)

\* solve: lines 44-58
penetration_solve(self, bodies, dt) ==
    solve_overlap([self EXCEPT !.contact.penetration =
                       penetration_depth(self, bodies)],
                  bodies, dt)

(***************************************************************************)
(* The inputs followed                                                     *)
(***************************************************************************)
U == Scale

\* The step sizes passed to solve.
Dts == {U \div 2}

\* Inverse mass and inverse inertia of a body: static, rotating in place,
\* a point mass, a free rigid body.
MassProperties ==
    {[inv_mass |-> 0, inv_inertia |-> 0], [inv_mass |-> 0, inv_inertia |-> U],
     [inv_mass |-> U, inv_inertia |-> 0], [inv_mass |-> U, inv_inertia |-> U]}

Compliances == {0, U \div 2}

JointPositions == {ZERO, <<U, 0, 0>>, <<2 * U, 0, 0>>, <<3 * U, 4 * U, 0>>}
JointAnchors1 == {ZERO, <<0, U, 0>>}
JointAnchors2 == {ZERO}
RestLengths == {0, 2 * U}
\* with_limits is called with these bounds, or not at all.
LimitMin == U
LimitMax == 3 * U

ContactPositions == {<<3 * (U \div 2), 0, 0>>, <<2 * U, 0, 0>>,
                     <<5 * (U \div 2), 0, 0>>}
\* How far the first body has moved since the start of the step.
Slides == {ZERO, <<0, U \div 8, 0>>, <<0, U, 0>>}
StaticCoefficients == {0, U}

(***************************************************************************)
(* The state machine: a behaviour follows one constraint, the distance     *)
(* joint or the penetration constraint, through clear_lagrange_multipliers *)
(* and up to MaxSolves solve calls; the other constraint stays idle.       *)
(***************************************************************************)
StaticBody(entity) ==
    RigidBody(entity, ZERO, [inv_mass |-> 0, inv_inertia |-> 0], 0)

IdleContact ==
    /\ pbodies = <<StaticBody(1), StaticBody(2)>>
    /\ pc = PenetrationConstraint_new(StaticBody(1), StaticBody(2),
                [point1 |-> ZERO, point2 |-> ZERO, normal1 |-> <<U, 0, 0>>,
                 penetration |-> 0])
    /\ pcalls = MaxSolves

IdleJoint ==
    /\ jbodies = <<StaticBody(1), StaticBody(2)>>
    /\ joint = DistanceJoint_new(1, 2)
    /\ jcalls = MaxSolves

\* DistanceJoint::new(..).with_local_anchor_1(..) ... between two bodies
JointInit ==
    /\ \E position \in JointPositions, m1 \in MassProperties, m2 \in MassProperties :
          jbodies = <<RigidBody(1, position, m1, 0), RigidBody(2, ZERO, m2, 0)>>
    /\ \E a1 \in JointAnchors1, a2 \in JointAnchors2, rest \in RestLengths,
          compliance \in Compliances, limited \in BOOLEAN :
          \E j \in {with_rest_length(
                        with_compliance(
                            with_local_anchor_2(
                                with_local_anchor_1(DistanceJoint_new(1, 2), a1),
                                a2),
                            compliance),
                        rest)} :
              joint = IF limited THEN with_limits(j, LimitMin, LimitMax) ELSE j
    /\ jcalls = 0
    /\ IdleContact

\* Two unit spheres, the first at the origin, the second along the x axis,
\* in contact along the x axis; the first has slid since the start of the
\* step.
ContactBody1(m1, friction, slide) ==
    [RigidBody(1, ZERO, m1, friction) EXCEPT !.previous_position = VNeg(slide)]
ContactBody2(m2, position) == RigidBody(2, position, m2, 0)
ContactBetween(position) ==
    [point1 |-> <<U, 0, 0>>, point2 |-> <<-U, 0, 0>>, normal1 |-> <<U, 0, 0>>,
     penetration |-> 2 * U - position[1]]

ContactInit ==
    /\ \E position \in ContactPositions, slide \in Slides,
          m1 \in MassProperties, m2 \in MassProperties,
          friction \in StaticCoefficients, compliance \in Compliances :
          /\ pbodies = <<ContactBody1(m1, friction, slide),
                         ContactBody2(m2, position)>>
          /\ pc = [PenetrationConstraint_new(
                       ContactBody1(m1, friction, slide),
                       ContactBody2(m2, position), ContactBetween(position))
                   EXCEPT !.compliance = compliance]
    /\ pcalls = 0
    /\ IdleJoint

Init == JointInit \/ ContactInit

JointSolve(dt) ==
    /\ jcalls < MaxSolves
    /\ \E r \in {joint_solve(joint, jbodies, dt)} :
           /\ joint' = r.self
           /\ jbodies' = r.bodies
    /\ jcalls' = jcalls + 1
    /\ UNCHANGED <<pc, pbodies, pcalls>>

JointClear ==
    /\ joint' = joint_clear_lagrange_multipliers(joint)
    /\ UNCHANGED <<jbodies, jcalls, pc, pbodies, pcalls>>

ContactSolve(dt) ==
    /\ pcalls < MaxSolves
    /\ \E r \in {penetration_solve(pc, pbodies, dt)} :
           /\ pc' = r.self
           /\ pbodies' = r.bodies
    /\ pcalls' = pcalls + 1
    /\ UNCHANGED <<joint, jbodies, jcalls>>

ContactClear ==
    /\ pc' = penetration_clear_lagrange_multipliers(pc)
    /\ UNCHANGED <<pbodies, pcalls, joint, jbodies, jcalls>>

Next ==
    \/ \E dt \in Dts : JointSolve(dt)
    \/ JointClear
    \/ \E dt \in Dts : ContactSolve(dt)
    \/ ContactClear

Spec == Init /\ [][Next]_vars

(***************************************************************************)
(* The claims                                                              *)
(***************************************************************************)
\* The distance between the joint's two anchor points in world space.
separation(self, bodies) ==
    Length(VSub(joint_anchor1(self, bodies), joint_anchor2(self, bodies)))

JointLength == separation(joint, jbodies)

\* A joint without limits whose anchors are at rest length or coincide.
JointUnlimitedAtRest ==
    /\ joint.length_limits = None
    /\ \/ JointLength < Epsilon
       \/ Abs(JointLength - joint.rest_length) < Epsilon

\* C1: a solve call on a distance joint without limits whose anchor
\* separation is at rest length (or below epsilon) leaves both bodies and
\* the accumulated multiplier as they were and sets the force to zero; the
\* joint is then still at rest, so this holds for every later call too.
C1_SolveAtRestChangesNothing ==
    [][(jcalls' = jcalls + 1 /\ JointUnlimitedAtRest)
        => /\ jbodies' = jbodies
           /\ joint'.lagrange = joint.lagrange
           /\ joint'.force = ZERO]_vars

\* Two or more solve calls were made, the joint is at rest with a multiplier
\* accumulated by an earlier correction, and the last call zeroed the force.
C1_Witness ==
    /\ jcalls >= 2
    /\ JointUnlimitedAtRest
    /\ joint.lagrange # 0
    /\ joint.force = ZERO

\* C4: a solve call on a penetration constraint whose recomputed depth is
\* at most epsilon changes neither body, neither multiplier and neither
\* force, whatever they have accumulated.
C4_NoOverlapChangesNothing ==
    [][(pcalls' = pcalls + 1 /\ penetration_depth(pc, pbodies) <= Epsilon)
        => /\ pbodies' = pbodies
           /\ pc'.normal_lagrange = pc.normal_lagrange
           /\ pc'.tangent_lagrange = pc.tangent_lagrange
           /\ pc'.normal_force = pc.normal_force
           /\ pc'.static_friction_force = pc.static_friction_force]_vars

\* The last of several solve calls found no overlap, with both multipliers
\* and the normal force accumulated by earlier calls.
C4_Witness ==
    /\ pcalls >= 2
    /\ pcalls < MaxSolves
    /\ pc.contact.penetration <= Epsilon
    /\ pc.normal_lagrange # 0
    /\ pc.tangent_lagrange # 0
    /\ pc.normal_force # ZERO

\* The constraint and the bodies as the contact phase of a solve call
\* leaves them.
AfterContactPhase(dt) ==
    solve_contact([pc EXCEPT !.contact.penetration =
                       penetration_depth(pc, pbodies)],
                  pbodies, dt)

\* The bodies overlap and, after the contact phase, the tangential sliding
\* since the start of the step is strictly more than static_coefficient x
\* penetration.
SlidingBeyondThreshold(dt) ==
    /\ penetration_depth(pc, pbodies) > Epsilon
    /\ contact_sliding_len(AfterContactPhase(dt).self, AfterContactPhase(dt).bodies)
         > Mul(contact_static_coefficient(pbodies), penetration_depth(pc, pbodies))

\* C5: in a solve call with penetration above epsilon and sliding strictly
\* beyond static_coefficient x penetration, the friction phase keeps the
\* tangential multiplier and the static friction force and moves no body:
\* the bodies end where the contact phase left them.
C5_BeyondThresholdNoFriction ==
    [][\A dt \in Dts :
        (pcalls' = pcalls + 1 /\ SlidingBeyondThreshold(dt))
        => /\ pc'.tangent_lagrange = pc.tangent_lagrange
           /\ pc'.static_friction_force = pc.static_friction_force
           /\ pbodies' = AfterContactPhase(dt).bodies]_vars

\* A solve call has resolved an overlap while the sliding was beyond the
\* threshold, with a tangential multiplier accumulated earlier.
C5_Witness ==
    /\ pcalls >= 2
    /\ pcalls < MaxSolves
    /\ pc.contact.penetration > Epsilon
    /\ contact_sliding_len(pc, pbodies)
         > Mul(contact_static_coefficient(pbodies), pc.contact.penetration)
    /\ pc.tangent_lagrange # 0
    /\ pc.static_friction_force # ZERO

\* The fields of a record other than those named.
OtherFieldsKept(before, after, names) ==
    /\ DOMAIN after = DOMAIN before
    /\ \A f \in DOMAIN before \ names : after[f] = before[f]

\* C10: a step that is no solve call is a clear_lagrange_multipliers call;
\* after it every multiplier of the constraint is zero and every other field
\* of the constraint, and both bodies, are as before.
C10_ClearZeroesOnlyMultipliers ==
    [][(jcalls' = jcalls /\ pcalls' = pcalls)
        => /\ joint'.lagrange = 0
           /\ OtherFieldsKept(joint, joint', {"lagrange"})
           /\ pc'.normal_lagrange = 0
           /\ pc'.tangent_lagrange = 0
           /\ OtherFieldsKept(pc, pc', {"normal_lagrange", "tangent_lagrange"})
           /\ jbodies' = jbodies
           /\ pbodies' = pbodies]_vars

\* Both multipliers of a penetration constraint are zero although the forces
\* recorded with them are not: they were cleared after being accumulated.
C10_Witness ==
    /\ pc.normal_lagrange = 0
    /\ pc.tangent_lagrange = 0
    /\ pc.normal_force # ZERO
    /\ pc.static_friction_force # ZERO

\* The anchor separation lies inside the limits of the joint.
within_limits(self, length) ==
    /\ self.length_limits[1].min <= length
    /\ length <= self.length_limits[1].max

JointWithinLimits == within_limits(joint, JointLength)

\* C2: a solve call on a distance joint with limits, made while the anchor
\* separation is inside [min, max], leaves the separation inside [min, max].
C2_LimitsKeepSeparationInRange ==
    [][(jcalls' = jcalls + 1 /\ joint.length_limits # None /\ JointWithinLimits)
        => within_limits(joint', separation(joint', jbodies'))]_vars

\* C3 as stated: a solve call on a joint whose first body has inverse mass 0
\* and whose second body has not leaves the first body's position and
\* rotation as they were.
C3_InfiniteMassBodyUnchanged ==
    [][(jcalls' = jcalls + 1 /\ jbodies[1].inv_mass = 0 /\ jbodies[2].inv_mass > 0)
        => /\ jbodies'[1].position = jbodies[1].position
           /\ jbodies'[1].rotation = jbodies[1].rotation]_vars

\* C3 amended: such a call leaves the first body's position as it was, and
\* leaves the whole body (its rotation too) as it was when its inverse
\* inertia is zero as well.
C3_InfiniteMassBodyNotMoved ==
    [][(jcalls' = jcalls + 1 /\ jbodies[1].inv_mass = 0 /\ jbodies[2].inv_mass > 0)
        => /\ jbodies'[1].position = jbodies[1].position
           /\ jbodies[1].inv_inertia = 0 => jbodies'[1] = jbodies[1]]_vars

\* A solve call has corrected a joint between a body of infinite mass and
\* inertia, anchored off its centre, and a body of finite mass: the second
\* body has moved.
C3_Witness ==
    /\ jcalls >= 1
    /\ jcalls < MaxSolves
    /\ jbodies[1].inv_mass = 0
    /\ jbodies[1].inv_inertia = 0
    /\ joint.local_anchor1 # ZERO
    /\ jbodies[2].inv_mass > 0
    /\ jbodies[2].position # ZERO
    /\ joint.lagrange # 0

\* The bodies overlap and, after the contact phase, the tangential sliding
\* since the start of the step is above epsilon and strictly below
\* static_coefficient x penetration.
SlidingBelowThreshold(dt) ==
    /\ penetration_depth(pc, pbodies) > Epsilon
    /\ contact_sliding_len(AfterContactPhase(dt).self, AfterContactPhase(dt).bodies)
         > Epsilon
    /\ contact_sliding_len(AfterContactPhase(dt).self, AfterContactPhase(dt).bodies)
         < Mul(contact_static_coefficient(pbodies), penetration_depth(pc, pbodies))

\* The unit vector along the sliding the friction phase finds.
sliding_tangent(self, bodies) ==
    VDiv(contact_delta_p_tangent(self, bodies), contact_sliding_len(self, bodies))

SlidingTangent(dt) ==
    sliding_tangent(AfterContactPhase(dt).self, AfterContactPhase(dt).bodies)

\* The friction phase has changed the tangential multiplier, has moved at
\* least one body from where the contact phase left it, every body it moved
\* along the tangent, and the static friction force is the tangent scaled by
\* the multiplier over dt^2.
static_friction_applied(before, after, bodies, moved, tangent, dt) ==
    /\ after.tangent_lagrange # before.tangent_lagrange
    /\ \E i \in {1, 2} : moved[i].position # bodies[i].position
    /\ \A i \in {1, 2} :
          Cross(VSub(moved[i].position, bodies[i].position), tangent) = ZERO
    /\ after.static_friction_force =
          VDiv(VScale(after.tangent_lagrange, tangent), Mul(dt, dt))

\* C6 as stated: in a solve call with penetration above epsilon and sliding
\* between epsilon and static_coefficient x penetration a nonzero tangential
\* correction is applied and the static friction force is parallel to the
\* sliding, whatever the inverse masses, the compliance and the accumulated
\* tangential multiplier.
C6_BelowThresholdFrictionAlways ==
    [][\A dt \in Dts :
        (pcalls' = pcalls + 1 /\ SlidingBelowThreshold(dt))
        => static_friction_applied(pc, pc', AfterContactPhase(dt).bodies,
                                   pbodies', SlidingTangent(dt), dt)]_vars

\* C6 amended: the same, for a constraint of zero compliance between bodies
\* of which at least one has a nonzero inverse mass.
C6_BelowThresholdFrictionRigid ==
    [][\A dt \in Dts :
        (/\ pcalls' = pcalls + 1
         /\ SlidingBelowThreshold(dt)
         /\ pc.compliance = 0
         /\ \E i \in {1, 2} : pbodies[i].inv_mass > 0)
        => static_friction_applied(pc, pc', AfterContactPhase(dt).bodies,
                                   pbodies', SlidingTangent(dt), dt)]_vars

\* Solve calls on a rigid contact with a movable body have applied static
\* friction while the bodies overlapped.
C6_Witness ==
    /\ pcalls >= 1
    /\ pcalls < MaxSolves
    /\ pc.compliance = 0
    /\ \E i \in {1, 2} : pbodies[i].inv_mass > 0
    /\ pc.contact.penetration > Epsilon
    /\ pc.tangent_lagrange # 0
    /\ pc.static_friction_force # ZERO

\* The length constrain_length compares with rest_length: that of the anchor
\* separation, corrected by the limits when the joint has limits.
constrained_length(self, p1, p2) ==
    IF self.length_limits # None
    THEN Length(VAdd(VSub(p1, p2), compute_correction(self.length_limits[1], p1, p2)))
    ELSE Length(VSub(p1, p2))

\* The joint is violated: a solve call passes the guards of constrain_length
\* and reaches the multiplier update.
joint_violated(self, bodies, length) ==
    /\ separation(self, bodies) >= Epsilon
    /\ length >= Epsilon
    /\ Abs(length - self.rest_length) >= Epsilon

JointViolated ==
    joint_violated(joint, jbodies,
        constrained_length(joint, joint_anchor1(joint, jbodies),
                           joint_anchor2(joint, jbodies)))

\* The magnitude of the multiplier increment, which scales the correction of
\* both bodies, of a solve call on the joint given the compliance a instead
\* of its own.
correction_magnitude(self, bodies, a, dt) ==
    Abs(joint_solve(with_compliance(self, a), bodies, dt).self.lagrange
            - self.lagrange)

\* The compliances compared, in increasing order.
ComparedCompliances == <<0, U \div 8, U \div 2, U>>

\* The correction magnitudes of a solve call under each of the compliances
\* compared.
correction_magnitudes(self, bodies, dt) ==
    <<correction_magnitude(self, bodies, ComparedCompliances[1], dt),
      correction_magnitude(self, bodies, ComparedCompliances[2], dt),
      correction_magnitude(self, bodies, ComparedCompliances[3], dt),
      correction_magnitude(self, bodies, ComparedCompliances[4], dt)>>

\* Of two compliances the larger gives the strictly smaller magnitude.
strictly_decreasing(magnitude) ==
    \A i \in DOMAIN magnitude, j \in DOMAIN magnitude :
        i < j => magnitude[j] < magnitude[i]

\* Of two compliances the larger never gives the larger magnitude.
decreasing(magnitude) ==
    \A i \in DOMAIN magnitude, j \in DOMAIN magnitude :
        i < j => magnitude[j] <= magnitude[i]

constraint_value(self, bodies) ==
    constrained_length(self, joint_anchor1(self, bodies),
                       joint_anchor2(self, bodies)) - self.rest_length

ContactMovable == \E i \in {1, 2} : pbodies[i].inv_mass > 0
ContactIrrotational == \A i \in {1, 2} : pbodies[i].inv_inertia = 0

JointMovable == \E i \in {1, 2} : jbodies[i].inv_mass > 0
JointIrrotational == \A i \in {1, 2} : jbodies[i].inv_inertia = 0

\* How far the anchor separation is from rest_length.
length_error(self, bodies) == Abs(separation(self, bodies) - self.rest_length)

====
